---- MODULE Spec2Model ----
(***************************************************************************)
(* Nspin: image stitching onto A4 pages (image_stitcher.py), exam-style    *)
(* rendering of questions (exam_formatter.py) and reconstruction of        *)
(* questions from OCR fragments (question_extractor.py).                   *)
(*                                                                         *)
(* Four state machines share this module, each with its own               *)
(* specification; the variables of the other machines stay at their idle   *)
(* values:                                                                 *)
(*   SpecLayout  ImageStitcher.stitch: _scale_images, then one iteration   *)
(*               of the while loop of _layout_images per step              *)
(*   SpecRender  render_questions_to_pages: one question per step          *)
(*   SpecParse   parse_question_with_location on a fragment stream         *)
(*   SpecEquiv   parse_question_with_location on the inline and on the     *)
(*               detached-marker form of one question                      *)
(***************************************************************************)
EXTENDS Integers, Sequences, FiniteSets, TLC

VARIABLES
    pc,             \* position of the running function
    images,         \* stitch: the input images, records [width, height]
    scaled_images,  \* stitch: result of _scale_images
    i,              \* _layout_images: loop index (1-based here)
    pages,          \* _layout_images: pages flushed so far
    current_page,   \* _layout_images: page under construction
    current_y,      \* _layout_images: cursor inside the content area
    questions,      \* render_questions_to_pages: the input questions
    idx,            \* render_questions_to_pages: number of the next question
    r_pages,        \* render_questions_to_pages: pages flushed so far
    r_current_page, \* render_questions_to_pages: numbers drawn on current_page
    r_current_y,    \* render_questions_to_pages: current_y
    words_result,   \* parse_question_with_location: the OCR fragments
    question,       \* parse_question_with_location: the returned Question
    alt_words,      \* the same content as words_result in detached-marker form
    alt_question,   \* parse_question_with_location(alt_words)
    caller,         \* the operation that called stitch or render_questions_to_pages
    access_token,   \* question_extractor._access_token, the cached token
    has_keys,       \* BAIDU_API_KEY and BAIDU_SECRET_KEY are both set
    tpc,            \* _get_access_token: each caller's position
    t_result,       \* _get_access_token: each caller's result (the response)
    t_ret,          \* _get_access_token: the value each caller returned
    late,           \* the callers that started after a call had returned
    overlap,        \* some call started while another one was running
    e_pc,           \* extract_questions_from_images: position
    e_i,            \* extract_questions_from_images: index of the current image
    e_questions,    \* extract_questions_from_images: questions
    ocr_requests,   \* number of OCR requests issued per image
    w_text,         \* _wrap_text: text
    w_max_width,    \* _wrap_text: max_width
    w_lines         \* _wrap_text: the returned lines

vars == <<pc, images, scaled_images, i, pages, current_page, current_y,
          questions, idx, r_pages, r_current_page, r_current_y,
          words_result, question, alt_words, alt_question, caller,
          access_token, has_keys, tpc, t_result, t_ret, late, overlap,
          e_pc, e_i, e_questions, ocr_requests, w_text, w_max_width, w_lines>>

layoutVars == <<images, scaled_images, i, pages, current_page, current_y>>
renderVars == <<questions, idx, r_pages, r_current_page, r_current_y>>
parseVars  == <<words_result, question, alt_words, alt_question>>
callVars   == <<caller>>
tokenVars  == <<access_token, has_keys, tpc, t_result, t_ret, late, overlap>>
extractVars == <<e_pc, e_i, e_questions, ocr_requests>>
wrapVars   == <<w_text, w_max_width, w_lines>>

Max(a, b) == IF a >= b THEN a ELSE b
Abs(a) == IF a >= 0 THEN a ELSE -a

\* The variables of a machine that does not run.
IdleLayout ==
    /\ images = <<>>
    /\ scaled_images = <<>>
    /\ i = 1
    /\ pages = <<>>
    /\ current_page = <<>>
    /\ current_y = 0

IdleRender ==
    /\ questions = <<>>
    /\ idx = 1
    /\ r_pages = <<>>
    /\ r_current_page = <<>>
    /\ r_current_y = 0

IdleParse ==
    /\ words_result = <<>>
    /\ question = <<>>
    /\ alt_words = <<>>
    /\ alt_question = <<>>

\* The function is called directly, not by an endpoint or a wrapper.
IdleCall == caller = "direct"

IdleToken ==
    /\ access_token = "None"
    /\ has_keys = TRUE
    /\ tpc = <<>>
    /\ t_result = <<>>
    /\ t_ret = <<>>
    /\ late = {}
    /\ overlap = FALSE

IdleExtract ==
    /\ e_pc = "idle"
    /\ e_i = 0
    /\ e_questions = <<>>
    /\ ocr_requests = <<>>

IdleWrap ==
    /\ w_text = <<>>
    /\ w_max_width = 0
    /\ w_lines = <<>>

RECURSIVE Flatten(_)
Flatten(ss) == IF ss = <<>> THEN <<>> ELSE Head(ss) \o Flatten(Tail(ss))

(***************************************************************************)
(* image_stitcher.py                                                       *)
(***************************************************************************)
A4_WIDTH == 2480
A4_HEIGHT == 3508
PADDING == 40
GAP == 20

content_width == A4_WIDTH - 2 * PADDING
content_height == A4_HEIGHT - 2 * PADDING
half_width == (content_width - GAP) \div 2

\* Bounds of the inputs of stitch.
MaxImages == 4
ImageWidths == {1190, 1200, 3000}
ImageHeights == {1000, 2000, 4000}
Image == [width : ImageWidths, height : ImageHeights]
ImageLists == UNION {[1..n -> Image] : n \in 0..MaxImages}

\* new_height = int(img.height * (target / img.width))
ScaledHeight(img, target) == (img.height * target) \div img.width

scale_image(img) ==
    IF img.width > content_width
    THEN [width |-> content_width, height |-> ScaledHeight(img, content_width)]
    ELSE img

scale_images(imgs) == [k \in 1..Len(imgs) |-> scale_image(imgs[k])]

fit_to_width(img, target_width) ==
    IF img.width <= target_width
    THEN img
    ELSE [width |-> target_width, height |-> ScaledHeight(img, target_width)]

PlacedImage(k, img, x, y) ==
    [image |-> k, x |-> x, y |-> y, width |-> img.width, height |-> img.height]

\* line 79: the page break before image i
NeedsNewPageMutant(y, img, page) == y + img.height > content_height
NeedsNewPage(y, img, page) == y + img.height > content_height /\ page # <<>>

\* lines 115-119: the page break of the single-column placement
AloneNewPage(y, img, page) == y + img.height > content_height /\ page # <<>>

\* lines 87-89: both images fit a column
BothHalfWidth(imgs, k) ==
    /\ imgs[k].width <= half_width
    /\ k + 1 <= Len(imgs)
    /\ imgs[k + 1].width <= half_width

\* line 93
RowHeight(left_img, right_img) == Max(left_img.height, right_img.height)

\* line 105
RightXMutant == PADDING + half_width - GAP
RightX == PADDING + half_width + GAP

\* lines 110 and 128: the cursor after a row
AdvanceYMutant(y, h) == y + h - GAP
AdvanceY(y, h) == y + h + GAP

\* line 111
AfterPairMutant(k) == k + 3
AfterPair(k) == k + 2

\* The state at line 84, after the page break of lines 79-82.
BreakPages == IF NeedsNewPage(current_y, scaled_images[i], current_page)
              THEN Append(pages, current_page) ELSE pages
BreakPage  == IF NeedsNewPage(current_y, scaled_images[i], current_page)
              THEN <<>> ELSE current_page
BreakY     == IF NeedsNewPage(current_y, scaled_images[i], current_page)
              THEN 0 ELSE current_y

\* lines 87-95: the side-by-side placement is taken
PairFitsMutant == BothHalfWidth(scaled_images, i)
PairFits ==
    /\ BothHalfWidth(scaled_images, i)
    /\ BreakY + RowHeight(fit_to_width(scaled_images[i], half_width),
                          fit_to_width(scaled_images[i + 1], half_width))
          <= content_height

InitLayout ==
    /\ pc = "stitch"
    /\ images \in ImageLists
    /\ scaled_images = <<>>
    /\ i = 1
    /\ pages = <<>>
    /\ current_page = <<>>
    /\ current_y = 0
    /\ IdleRender
    /\ IdleParse
    /\ IdleCall
    /\ IdleToken
    /\ IdleExtract
    /\ IdleWrap

\* stitch, lines 43-44
StitchEmpty ==
    /\ pc = "stitch"
    /\ images = <<>>
    /\ pc' = "done"
    /\ UNCHANGED <<wrapVars, tokenVars, extractVars, callVars, layoutVars, renderVars, parseVars>>

\* stitch, lines 47-50 up to the first iteration of _layout_images
StitchScale ==
    /\ pc = "stitch"
    /\ images # <<>>
    /\ scaled_images' = scale_images(images)
    /\ i' = 1
    /\ pages' = <<>>
    /\ current_page' = <<>>
    /\ current_y' = 0
    /\ pc' = "layout"
    /\ UNCHANGED <<wrapVars, tokenVars, extractVars, callVars, images, renderVars, parseVars>>

\* _layout_images, lines 76-112: one iteration that places two images in a row
LayoutPair ==
    /\ pc = "layout"
    /\ i <= Len(scaled_images)
    /\ PairFits
    /\ LET left_img  == fit_to_width(scaled_images[i], half_width)
           right_img == fit_to_width(scaled_images[i + 1], half_width)
       IN /\ current_page' = BreakPage \o
                 << PlacedImage(i, left_img, PADDING, PADDING + BreakY),
                    PlacedImage(i + 1, right_img, RightX, PADDING + BreakY) >>
          /\ current_y' = AdvanceY(BreakY, RowHeight(left_img, right_img))
    /\ pages' = BreakPages
    /\ i' = AfterPair(i)
    /\ UNCHANGED <<wrapVars, tokenVars, extractVars, callVars, pc, images, scaled_images, renderVars, parseVars>>

\* _layout_images, lines 76-95 and 114-129: one iteration that places one image
LayoutAlone ==
    /\ pc = "layout"
    /\ i <= Len(scaled_images)
    /\ ~PairFits
    /\ LET img == scaled_images[i]
           brk == AloneNewPage(BreakY, img, BreakPage)
           y   == IF brk THEN 0 ELSE BreakY
       IN /\ pages' = IF brk THEN Append(BreakPages, BreakPage) ELSE BreakPages
          /\ current_page' = (IF brk THEN <<>> ELSE BreakPage) \o
                 << PlacedImage(i, img, PADDING, PADDING + y) >>
          /\ current_y' = AdvanceY(y, img.height)
    /\ i' = i + 1
    /\ UNCHANGED <<wrapVars, tokenVars, extractVars, callVars, pc, images, scaled_images, renderVars, parseVars>>

\* _layout_images, lines 131-134
LayoutFinish ==
    /\ pc = "layout"
    /\ i > Len(scaled_images)
    /\ pages' = IF current_page # <<>> THEN Append(pages, current_page) ELSE pages
    /\ pc' = "done"
    /\ UNCHANGED <<wrapVars, tokenVars, extractVars, callVars, images, scaled_images, i, current_page, current_y,
                   renderVars, parseVars>>

NextLayout == StitchEmpty \/ StitchScale \/ LayoutPair \/ LayoutAlone \/ LayoutFinish

SpecLayout == InitLayout /\ [][NextLayout]_vars /\ WF_vars(NextLayout)

(***************************************************************************)
(* exam_formatter.py                                                       *)
(***************************************************************************)
PAGE_WIDTH == 3508
PAGE_HEIGHT == 2480
MARGIN == 120
CONTENT_WIDTH == PAGE_WIDTH - 2 * MARGIN
LINE_HEIGHT_STEM == 72
LINE_HEIGHT_OPTION == 66

Letters == <<"A", "B", "C", "D">>
LetterSet == {"A", "B", "C", "D"}
Digits == <<"0", "1", "2", "3", "4", "5", "6", "7", "8", "9">>

\* A text is a sequence of characters.  font.getbbox(line): the measured width
\* of a line, here the sum of the advance widths of its glyphs; "W" stands
\* for a glyph so wide that two of them do not fit one line.
CharWidth(c) == IF c = "W" THEN 1700 ELSE 24

RECURSIVE TextWidth(_)
TextWidth(line) ==
    IF line = <<>> THEN 0 ELSE CharWidth(Head(line)) + TextWidth(Tail(line))

\* _wrap_text, lines 54-55 and 58-59: lines.append(current_line) if current_line
closed_line(current_line) == IF current_line # <<>> THEN <<current_line>> ELSE <<>>

\* _wrap_text, lines 46-59: the lines the loop appends from the k-th character
\* of text on, current_line being the line accumulated so far
RECURSIVE wrap_loop_mutant(_, _, _, _)
wrap_loop_mutant(text, k, max_width, current_line) ==
    IF k > Len(text)
    THEN closed_line(current_line)
    ELSE LET char == text[k]
             test_line == Append(current_line, char)
         IN IF TextWidth(test_line) < max_width
            THEN wrap_loop_mutant(text, k + 1, max_width, test_line)
            ELSE closed_line(current_line) \o wrap_loop_mutant(text, k + 1, max_width, <<char>>)

RECURSIVE wrap_loop(_, _, _, _)
wrap_loop(text, k, max_width, current_line) ==
    IF k > Len(text)
    THEN closed_line(current_line)
    ELSE LET char == text[k]
             test_line == Append(current_line, char)
         IN IF TextWidth(test_line) <= max_width
            THEN wrap_loop(text, k + 1, max_width, test_line)
            ELSE closed_line(current_line) \o wrap_loop(text, k + 1, max_width, <<char>>)

wrap_text(text, max_width) == wrap_loop(text, 1, max_width, <<>>)

\* str(number)
RECURSIVE NumStr(_)
NumStr(n) ==
    IF n < 10 THEN <<Digits[n + 1]>>
    ELSE NumStr(n \div 10) \o <<Digits[(n % 10) + 1]>>

\* f"{number}. {question.stem}"
stem_text(q, number) == NumStr(number) \o <<".", " ">> \o q.stem

\* line 123: the number of option rows of the estimate
option_rows_mutant(n) == n \div 2
option_rows(n) == (n + 1) \div 2

calculate_question_height(q, number, max_width) ==
    LET stem_lines == wrap_text(stem_text(q, number), max_width)
        height == Len(stem_lines) * LINE_HEIGHT_STEM
    IN IF DOMAIN q.options # {}
       THEN height + option_rows(Cardinality(DOMAIN q.options)) * LINE_HEIGHT_OPTION + 20
       ELSE height

\* _render_question, lines 146-148: current_y after the loop has drawn the
\* stem lines from the k-th on, each adding LINE_HEIGHT_STEM to y
RECURSIVE render_stem_lines(_, _, _)
render_stem_lines(n_lines, k, y) ==
    IF k > n_lines THEN y
    ELSE render_stem_lines(n_lines, k + 1, y) + LINE_HEIGHT_STEM

\* _render_question, lines 156-168: for i in range(0, len(option_keys), 2)
RECURSIVE render_option_rows(_, _, _)
render_option_rows(k, n, y) ==
    IF k >= n THEN y ELSE render_option_rows(k + 2, n, y + LINE_HEIGHT_OPTION)

\* _render_question: the y coordinate it returns
render_question(q, number, start_y, max_width) ==
    LET stem_lines == wrap_text(stem_text(q, number), max_width)
        y == render_stem_lines(Len(stem_lines), 1, start_y)
    IN IF DOMAIN q.options # {}
       THEN render_option_rows(0, Cardinality(DOMAIN q.options), y + 20)
       ELSE y

\* Bounds of the inputs of render_questions_to_pages.
MaxQuestions == 2
StemLengths == {1, 15, 32}
StemOf(n) == [k \in 1..n |-> "W"]
OptionsOf(n) == [l \in {Letters[k] : k \in 1..n} |-> <<"x">>]
RenderQuestion == {[stem |-> StemOf(n), options |-> OptionsOf(m)] :
                      n \in StemLengths, m \in 0..4}
QuestionLists == UNION {[1..n -> RenderQuestion] : n \in 0..MaxQuestions}

\* line 84
Overflows == r_current_y + calculate_question_height(questions[idx], idx, CONTENT_WIDTH)
                 > PAGE_HEIGHT - MARGIN

InitRender ==
    /\ pc = "render"
    /\ questions \in QuestionLists
    /\ idx = 1
    /\ r_pages = <<>>
    /\ r_current_page = <<>>
    /\ r_current_y = MARGIN
    /\ IdleLayout
    /\ IdleParse
    /\ IdleCall
    /\ IdleToken
    /\ IdleExtract
    /\ IdleWrap

\* render_questions_to_pages, lines 66-67
RenderEmpty ==
    /\ pc = "render"
    /\ questions = <<>>
    /\ pc' = "done"
    /\ UNCHANGED <<wrapVars, tokenVars, extractVars, callVars, layoutVars, renderVars, parseVars>>

\* render_questions_to_pages, lines 77-97: one iteration of the loop.  A page
\* is the sequence of the numbers of the questions drawn on it.
RenderStep ==
    /\ pc = "render"
    /\ questions # <<>>
    /\ idx <= Len(questions)
    /\ IF Overflows
       THEN /\ r_pages' = Append(r_pages, r_current_page)
            /\ r_current_page' = <<idx>>
            /\ r_current_y' =
                  render_question(questions[idx], idx, MARGIN, CONTENT_WIDTH) + 40
       ELSE /\ r_pages' = r_pages
            /\ r_current_page' = Append(r_current_page, idx)
            /\ r_current_y' =
                  render_question(questions[idx], idx, r_current_y, CONTENT_WIDTH) + 40
    /\ idx' = idx + 1
    /\ UNCHANGED <<wrapVars, tokenVars, extractVars, callVars, pc, questions, layoutVars, parseVars>>

\* render_questions_to_pages, lines 100-103
RenderFinish ==
    /\ pc = "render"
    /\ questions # <<>>
    /\ idx > Len(questions)
    /\ r_pages' = IF r_current_y > MARGIN THEN Append(r_pages, r_current_page) ELSE r_pages
    /\ pc' = "done"
    /\ UNCHANGED <<wrapVars, tokenVars, extractVars, callVars, questions, idx, r_current_page, r_current_y, layoutVars, parseVars>>

NextRender == RenderEmpty \/ RenderStep \/ RenderFinish

SpecRender == InitRender /\ [][NextRender]_vars /\ WF_vars(NextRender)

(***************************************************************************)
(* question_extractor.py: texts and the regular expressions used on them   *)
(*                                                                         *)
(* A text is a sequence of characters, each a one-character token.  The    *)
(* non-ASCII characters the code names are written as tokens:              *)
(*   FW_LP, FW_RP   fullwidth parentheses         FW_STOP  ideographic     *)
(*   FW_DOT         fullwidth full stop '.'                full stop       *)
(*   IDEO_COMMA     ideographic comma             NL       line feed       *)
(***************************************************************************)
FW_LP == "fw("
FW_RP == "fw)"
FW_STOP == "fw_stop"
FW_DOT == "fw_dot"
IDEO_COMMA == "ideo_comma"
NL == "\n"

IsDigit(c) == c \in {Digits[k] : k \in 1..10}
\* \s and the characters str.strip() removes
IsSpace(c) == c \in {" ", NL}
\* [\s\.．、]
IsSeparator(c) == IsSpace(c) \/ c \in {".", FW_DOT, IDEO_COMMA}
\* [（\(] and [）\)]
IsOpenParen(c) == c \in {"(", FW_LP}
IsCloseParen(c) == c \in {")", FW_RP}

DropLast(t) == SubSeq(t, 1, Len(t) - 1)
Last(t) == t[Len(t)]

RECURSIVE lstrip(_)
lstrip(t) == IF t # <<>> /\ IsSpace(Head(t)) THEN lstrip(Tail(t)) ELSE t

RECURSIVE rstrip(_)
rstrip(t) == IF t # <<>> /\ IsSpace(Last(t)) THEN rstrip(DropLast(t)) ELSE t

\* str.strip()
strip(t) == rstrip(lstrip(t))

\* ''.join(texts)
RECURSIVE join(_)
join(texts) == IF texts = <<>> THEN <<>> ELSE Head(texts) \o join(Tail(texts))

\* sep.join(texts)
RECURSIVE join_with(_, _)
join_with(sep, texts) ==
    IF texts = <<>> THEN <<>>
    ELSE IF Len(texts) = 1 THEN Head(texts)
    ELSE Head(texts) \o sep \o join_with(sep, Tail(texts))

\* str.split('\n'): the pieces between the line feeds of t, cur being the
\* piece accumulated so far
RECURSIVE split_loop(_, _)
split_loop(t, cur) ==
    IF t = <<>> THEN <<cur>>
    ELSE IF Head(t) = NL THEN <<cur>> \o split_loop(Tail(t), <<>>)
    ELSE split_loop(Tail(t), Append(cur, Head(t)))

split_lines(t) == split_loop(t, <<>>)

\* needle in t, for a needle of two characters
Contains2(t, a, b) == \E k \in 1..(Len(t) - 1) : t[k] = a /\ t[k + 1] = b

\* '()' in text or '（）' in text
has_placeholder(t) == Contains2(t, "(", ")") \/ Contains2(t, FW_LP, FW_RP)

AllDigits(t) == t # <<>> /\ \A k \in 1..Len(t) : IsDigit(t[k])

\* ^\d+/\d+$
IsPageCounter(t) ==
    \E k \in 2..(Len(t) - 1) :
        /\ t[k] = "/"
        /\ AllDigits(SubSeq(t, 1, k - 1))
        /\ AllDigits(SubSeq(t, k + 1, Len(t)))

\* ^\d{1,2}:\d{2}
IsClockTimeMutant(t) ==
    /\ Len(t) >= 5
    /\ AllDigits(SubSeq(t, 1, 2))
    /\ t[3] = ":"
    /\ AllDigits(SubSeq(t, 4, 5))
IsClockTime(t) ==
    \E k \in 2..3 :
        /\ Len(t) >= k + 2
        /\ AllDigits(SubSeq(t, 1, k - 1))
        /\ t[k] = ":"
        /\ AllDigits(SubSeq(t, k + 1, k + 2))

\* ^5G
Is5G(t) == Len(t) >= 2 /\ t[1] = "5" /\ t[2] = "G"

\* the category labels of both skip_patterns lists, written in pinyin
CategoryLabels ==
    { <<"dan", "xuan", "ti">>, <<"duo", "xuan", "ti">>,
      <<"chang", "shi", "pan", "duan">>, <<"luo", "ji", "tian", "kong">>,
      <<"yan", "yu", "li", "jie">>, <<"zi", "liao", "fen", "xi">>,
      <<"pan", "duan", "tui", "li">>, <<"shu", "liang", "guan", "xi">> }

\* any(re.match(p, text) for p in skip_patterns), lines 103-108
matches_skip_patterns(t) ==
    \/ IsPageCounter(t)
    \/ t \in CategoryLabels
    \/ IsClockTime(t)
    \/ Is5G(t)
    \/ t = <<".", ".", ".">>
    \/ t = <<"<">>
    \/ t = <<">">>
    \/ AllDigits(t)

\* any(re.match(p, line) for p in skip_patterns), lines 261-276
matches_skip_patterns_text(t) ==
    \/ IsPageCounter(t)
    \/ t \in CategoryLabels
    \/ IsClockTime(t)
    \/ Is5G(t)
    \/ AllDigits(t)
    \/ (Len(t) >= 2 /\ t[1] = "." /\ t[2] = ".")
    \/ (t # <<>> /\ t[1] = "\\" /\ \A k \in 2..Len(t) : IsSpace(t[k]))

\* re.match(r'^[A-D]$', text): the class of the option letters
IsOptionLetterMutant(c) == c \in LetterSet \cup {"E"}
IsOptionLetter(c) == c \in LetterSet

is_bare_letter(t) == Len(t) = 1 /\ IsOptionLetter(t[1])

\* re.match(r'^([A-D])[\s\.．、]\s*(.+)$', text) and
\* re.match(r'^([A-D])[\s\.．、](.+)$', line): both match the same texts
inline_match(t) == Len(t) >= 3 /\ IsOptionLetter(t[1]) /\ IsSeparator(t[2])

\* the group (.+) after \s* has taken every space it can and left one character
RECURSIVE skip_spaces_keep_one(_)
skip_spaces_keep_one(t) ==
    IF Len(t) >= 2 /\ IsSpace(Head(t)) THEN skip_spaces_keep_one(Tail(t)) ELSE t

\* line 144: content.strip()
inline_content(t) == strip(skip_spaces_keep_one(SubSeq(t, 3, Len(t))))

\* line 367: value.strip()
inline_value(t) == strip(SubSeq(t, 3, Len(t)))

\* re.sub(r'[（\(]\s*[）\)]\s*。?$', '', stem): the match can only be a suffix
strip_placeholder(t) ==
    LET t1 == IF t # <<>> /\ Last(t) = FW_STOP THEN DropLast(t) ELSE t
        t2 == rstrip(t1)
        t3 == IF t2 # <<>> /\ IsCloseParen(Last(t2)) THEN rstrip(DropLast(t2)) ELSE <<>>
    IN IF t2 # <<>> /\ IsCloseParen(Last(t2)) /\ t3 # <<>> /\ IsOpenParen(Last(t3))
       THEN DropLast(t3)
       ELSE t

\* lines 151-152, 191 and 252, 349-352, 372-374
clean_stem(t) == strip(strip_placeholder(t))

(***************************************************************************)
(* question_extractor.py: parse_question_with_location and parse_question  *)
(*                                                                         *)
(* A fragment of words_result is a record [words, top, left]; every        *)
(* fragment carries a location.  A dict is a function on its keys.         *)
(***************************************************************************)
EmptyDict == [k \in {} |-> <<>>]
DictSet(d, key, value) ==
    [k \in DOMAIN d \cup {key} |-> IF k = key THEN value ELSE d[k]]

Question(stem, options, raw_text) ==
    [stem |-> stem, options |-> options, raw_text |-> raw_text]

\* lines 113-121: the fragment is not appended to valid_items
is_skipped(text) ==
    \/ text = <<>>
    \/ (Len(text) <= 2 /\ ~is_bare_letter(text) /\ matches_skip_patterns(text))
    \/ matches_skip_patterns(text)

\* lines 111-128
RECURSIVE filter_items(_)
filter_items(frags) ==
    IF frags = <<>> THEN <<>>
    ELSE LET text == strip(Head(frags).words)
         IN IF is_skipped(text)
            THEN filter_items(Tail(frags))
            ELSE <<[text |-> text, top |-> Head(frags).top, left |-> Head(frags).left]>>
                     \o filter_items(Tail(frags))

\* list.sort(key=lambda x: x["top"]) is stable: an item goes after the items
\* whose key is not larger
RECURSIVE insert_by_top(_, _)
insert_by_top(sorted, item) ==
    IF sorted = <<>> THEN <<item>>
    ELSE IF Head(sorted).top <= item.top
         THEN <<Head(sorted)>> \o insert_by_top(Tail(sorted), item)
         ELSE <<item>> \o sorted

RECURSIVE sort_by_top_from(_, _, _)
sort_by_top_from(items, k, sorted) ==
    IF k > Len(items) THEN sorted
    ELSE sort_by_top_from(items, k + 1, insert_by_top(sorted, items[k]))

sort_by_top(items) == sort_by_top_from(items, 1, <<>>)

\* list.sort(key=lambda x: x["left"])
RECURSIVE insert_by_left(_, _)
insert_by_left(sorted, item) ==
    IF sorted = <<>> THEN <<item>>
    ELSE IF Head(sorted).left <= item.left
         THEN <<Head(sorted)>> \o insert_by_left(Tail(sorted), item)
         ELSE <<item>> \o sorted

RECURSIVE sort_by_left_from(_, _, _)
sort_by_left_from(items, k, sorted) ==
    IF k > Len(items) THEN sorted
    ELSE sort_by_left_from(items, k + 1, insert_by_left(sorted, items[k]))

sort_by_left(items) == sort_by_left_from(items, 1, <<>>)

\* lines 111-131
valid_items_of(frags) == sort_by_top(filter_items(frags))

texts_of(items) == [k \in 1..Len(items) |-> items[k].text]

\* line 133
raw_text_of(items) == join_with(<<NL>>, texts_of(items))

\* lines 139-145: the options dict after the items from the k-th on
RECURSIVE inline_options_from(_, _, _)
inline_options_from_mutant(items, k, options) ==
    IF k > Len(items) THEN options
    ELSE IF inline_match(items[k].text) /\ items[k].text[1] \notin DOMAIN options
         THEN inline_options_from(items, k + 1,
                  DictSet(options, items[k].text[1], inline_content(items[k].text)))
         ELSE inline_options_from(items, k + 1, options)
inline_options_from(items, k, options) ==
    IF k > Len(items) THEN options
    ELSE IF inline_match(items[k].text)
         THEN inline_options_from(items, k + 1,
                  DictSet(options, items[k].text[1], inline_content(items[k].text)))
         ELSE inline_options_from(items, k + 1, options)

inline_options(items) == inline_options_from(items, 1, EmptyDict)

\* line 148: option_items[0]["index"], here 1-based
first_option_idx(items) ==
    CHOOSE k \in 1..Len(items) :
        /\ inline_match(items[k].text)
        /\ \A j \in 1..(k - 1) : ~inline_match(items[j].text)

\* lines 147-152
parse_inline_exit(items) ==
    LET stem_items == SubSeq(items, 1, first_option_idx(items) - 1)
        stem == join(texts_of(stem_items))
    IN Question(clean_stem(stem), inline_options(items), raw_text_of(items))

\* lines 155-162 and 168: the markers, records [index, letter, top]
RECURSIVE find_option_letters(_, _)
find_option_letters(items, k) ==
    IF k > Len(items) THEN <<>>
    ELSE IF is_bare_letter(items[k].text)
         THEN <<[index |-> k, letter |-> items[k].text[1], top |-> items[k].top]>>
                  \o find_option_letters(items, k + 1)
         ELSE find_option_letters(items, k + 1)

option_letters_of(items) == sort_by_top(find_option_letters(items, 1))

\* lines 171-185: stem_end_idx, 1-based, 0 when the stem is empty
stem_end_idx_of(items) ==
    LET marked == {k \in 1..Len(items) : has_placeholder(items[k].text)}
        first_letter_idx == option_letters_of(items)[1].index
    IN IF marked # {}
       THEN CHOOSE k \in marked : \A j \in marked : k <= j
       ELSE IF first_letter_idx - 1 >= 2 THEN first_letter_idx - 2 ELSE 0

\* lines 188-193
detached_stem(items) ==
    IF stem_end_idx_of(items) >= 1
    THEN strip_placeholder(join(texts_of(SubSeq(items, 1, stem_end_idx_of(items)))))
    ELSE <<>>

\* line 213: the marker replaces the closest one found so far
is_closer_mutant(dist, min_dist) == dist <= min_dist
is_closer(dist, min_dist) == dist < min_dist

\* lines 209-215: closest_letter after the markers from the k-th on; closest is
\* the index in option_letters of the closest marker so far, 0 for None
RECURSIVE closest_from(_, _, _, _, _)
closest_from(item_top, option_letters, k, min_dist, closest) ==
    IF k > Len(option_letters) THEN closest
    ELSE LET dist == Abs(item_top - option_letters[k].top)
         IN IF closest = 0 \/ is_closer(dist, min_dist)
            THEN closest_from(item_top, option_letters, k + 1, dist, k)
            ELSE closest_from(item_top, option_letters, k + 1, min_dist, closest)

closest_marker(item, option_letters) ==
    closest_from(item.top, option_letters, 1, 0, 0)

\* lines 200-204: the item is offered to the markers
is_content_mutant(items, k) == k >= stem_end_idx_of(items) /\ ~is_bare_letter(items[k].text)
is_content(items, k) == k > stem_end_idx_of(items) /\ ~is_bare_letter(items[k].text)

\* lines 197-218: options[letter], the indexes in valid_items of the items
\* appended to it, from the k-th item on
RECURSIVE content_list_from(_, _, _)
content_list_from(items, letter, k) ==
    IF k > Len(items) THEN <<>>
    ELSE LET option_letters == option_letters_of(items)
             closest == closest_marker(items[k], option_letters)
         IN IF is_content(items, k) /\ closest # 0 /\ option_letters[closest].letter = letter
            THEN <<k>> \o content_list_from(items, letter, k + 1)
            ELSE content_list_from(items, letter, k + 1)

content_list(items, letter) == content_list_from(items, letter, 1)

\* lines 231-239: the lines of a content list sorted by top
RECURSIVE group_lines(_, _)
group_lines(rest, current_line) ==
    IF rest = <<>> THEN <<current_line>>
    ELSE IF Abs(Head(rest).top - current_line[1].top) < 40
         THEN group_lines(Tail(rest), Append(current_line, Head(rest)))
         ELSE <<current_line>> \o group_lines(Tail(rest), <<Head(rest)>>)

\* lines 242-249
line_text(line) == join_with(<<" ">>, texts_of(sort_by_left(line)))

\* lines 222-250
option_text(items, letter) ==
    LET idxs == content_list(items, letter)
        sorted == sort_by_top([k \in 1..Len(idxs) |-> items[idxs[k]]])
        lines == group_lines(Tail(sorted), <<Head(sorted)>>)
    IN IF idxs = <<>> THEN <<>>
       ELSE join([k \in 1..Len(lines) |-> line_text(lines[k])])

\* lines 197-250
detached_options(items) ==
    LET option_letters == option_letters_of(items)
        letters == {option_letters[k].letter : k \in 1..Len(option_letters)}
    IN [letter \in letters |-> option_text(items, letter)]

\* lines 167-252
parse_detached_exit(items) ==
    Question(strip(detached_stem(items)), detached_options(items), raw_text_of(items))

\* _parse_inline_format, lines 363-369: (options, stem_lines) after the lines
\* from the k-th on
RECURSIVE inline_format_from(_, _, _, _)
inline_format_from(lines, k, options, stem_lines) ==
    IF k > Len(lines) THEN [options |-> options, stem_lines |-> stem_lines]
    ELSE IF inline_match(lines[k])
         THEN inline_format_from(lines, k + 1,
                  DictSet(options, lines[k][1], inline_value(lines[k])), stem_lines)
         ELSE IF DOMAIN options = {}
              THEN inline_format_from(lines, k + 1, options, Append(stem_lines, lines[k]))
              ELSE inline_format_from(lines, k + 1, options, stem_lines)

\* _parse_inline_format
parse_inline_format(lines, raw_text) ==
    LET r == inline_format_from(lines, 1, EmptyDict, <<>>)
    IN Question(clean_stem(join(r.stem_lines)), r.options, raw_text)

\* parse_question, lines 277-283
RECURSIVE filter_lines(_)
filter_lines(lines) ==
    IF lines = <<>> THEN <<>>
    ELSE LET line == strip(Head(lines))
         IN IF line = <<>> \/ Len(line) <= 2 \/ matches_skip_patterns_text(line)
            THEN filter_lines(Tail(lines))
            ELSE <<line>> \o filter_lines(Tail(lines))

\* parse_question, lines 287-289: the 1-based indexes of the bare letters
option_positions_of(lines) ==
    LET RECURSIVE from(_)
        from(k) == IF k > Len(lines) THEN <<>>
                   ELSE IF is_bare_letter(lines[k]) THEN <<k>> \o from(k + 1)
                   ELSE from(k + 1)
    IN from(1)

\* parse_question, lines 300-305: the number of stem lines
text_stem_end(lines, first_option) ==
    LET ends == {k \in 1..(first_option - 1) :
                    has_placeholder(lines[k]) \/ Last(lines[k]) = FW_STOP}
    IN IF ends # {} THEN CHOOSE k \in ends : \A j \in ends : k <= j
       ELSE first_option - 1

\* parse_question, lines 336-343: the lines kept of content_after
RECURSIVE final_content_after(_, _)
final_content_after(content_after, taken) ==
    IF content_after = <<>> THEN <<>>
    ELSE IF taken = 0 \/ Len(Head(content_after)) < 20
         THEN <<Head(content_after)>> \o final_content_after(Tail(content_after), taken + 1)
         ELSE <<>>

\* parse_question, lines 314-346: the options dict after the markers from the
\* n-th on
RECURSIVE text_options_from(_, _, _, _, _)
text_options_from(lines, positions, stem_end, n, options) ==
    IF n > Len(positions) THEN options
    ELSE LET pos == positions[n]
             start_before == IF n = 1 THEN stem_end + 1 ELSE positions[n - 1] + 1
             end_after == IF n + 1 <= Len(positions) THEN positions[n + 1] - 1
                          ELSE Len(lines)
             content_before == SubSeq(lines, start_before, pos - 1)
             content_after == SubSeq(lines, pos + 1, end_after)
             all_content == content_before \o final_content_after(content_after, 0)
         IN text_options_from(lines, positions, stem_end, n + 1,
                DictSet(options, lines[pos][1], join(all_content)))

\* parse_question
parse_question(text) ==
    LET filtered_lines == filter_lines(split_lines(strip(text)))
        option_positions == option_positions_of(filtered_lines)
        stem_end == text_stem_end(filtered_lines, option_positions[1])
    IN IF option_positions = <<>>
       THEN parse_inline_format(filtered_lines, text)
       ELSE Question(clean_stem(join(SubSeq(filtered_lines, 1, stem_end))),
                     text_options_from(filtered_lines, option_positions, stem_end,
                                       1, EmptyDict),
                     text)

\* parse_question_with_location
parse_question_with_location(frags) ==
    LET items == valid_items_of(frags)
    IN IF frags = <<>> THEN Question(<<>>, EmptyDict, <<>>)
       ELSE IF DOMAIN inline_options(items) # {} THEN parse_inline_exit(items)
       ELSE IF option_letters_of(items) = <<>> THEN parse_question(raw_text_of(items))
       ELSE parse_detached_exit(items)

(***************************************************************************)
(* The fragment streams given to parse_question_with_location              *)
(***************************************************************************)
Fragment(words, top, left) == [words |-> words, top |-> top, left |-> left]

Repeat(c, n) == [k \in 1..n |-> c]

\* The fragments a stream is drawn from: a stem with a placeholder, plain
\* text, markers, contents (one halfway between the markers A and B), inline
\* options (the letter A twice), a short continuation, noise, and a letter that
\* is no option.
FragStem   == Fragment(<<"s", "s", FW_LP, FW_RP>>, 0, 0)
FragNoise  == Fragment(<<"1", "2">>, 5, 0)
FragClock  == Fragment(<<"9", ":", "1", "7">>, 7, 0)
FragPlain  == Fragment(<<"p", "p", "p">>, 10, 0)
FragPlain2 == Fragment(<<"q", "q", "q">>, 20, 0)
FragA      == Fragment(<<"A">>, 50, 0)
FragInA    == Fragment(<<"A", ".", "u", "u">>, 50, 0)
FragX      == Fragment(<<"x", "x">>, 60, 100)
FragCont   == Fragment(Repeat("k", 10), 70, 0)
FragMid    == Fragment(<<"m", "m", "m">>, 75, 20)
FragB      == Fragment(<<"B">>, 100, 0)
FragInB    == Fragment(<<"B", IDEO_COMMA, " ", "v", "v">>, 100, 0)
FragY      == Fragment(<<"y", "y">>, 110, 100)
FragE      == Fragment(<<"E">>, 120, 0)
FragInA2   == Fragment(<<"A", FW_DOT, "w", "w">>, 130, 0)
FragA2     == Fragment(<<" ", "A">>, 150, 0)

Pool == << FragStem, FragNoise, FragClock, FragPlain, FragPlain2, FragA, FragInA, FragX,
           FragCont, FragMid, FragB, FragInB, FragY, FragE, FragInA2, FragA2 >>

\* Bound of the length of a stream.
MaxFragments == 5

PoolSubsets == {S \in SUBSET (1..Len(Pool)) : Cardinality(S) <= MaxFragments}

\* The fragments of S in the order of Pool
RECURSIVE InPoolOrder(_)
InPoolOrder(S) ==
    IF S = {} THEN <<>>
    ELSE LET k == CHOOSE n \in S : \A m \in S : n <= m
         IN <<Pool[k]>> \o InPoolOrder(S \ {k})

Reverse(seq) == [k \in 1..Len(seq) |-> seq[Len(seq) + 1 - k]]

\* The OCR provider returns the fragments top-down or bottom-up.
Streams == {InPoolOrder(S) : S \in PoolSubsets} \cup
           {Reverse(InPoolOrder(S)) : S \in PoolSubsets}

InitParse ==
    /\ pc = "parse"
    /\ words_result \in Streams
    /\ question = <<>>
    /\ alt_words = <<>>
    /\ alt_question = <<>>
    /\ IdleLayout
    /\ IdleRender
    /\ IdleCall
    /\ IdleToken
    /\ IdleExtract
    /\ IdleWrap

\* parse_question_with_location, lines 99-100
ParseEmpty ==
    /\ pc = "parse"
    /\ words_result = <<>>
    /\ question' = parse_question_with_location(words_result)
    /\ pc' = "done"
    /\ UNCHANGED <<wrapVars, tokenVars, extractVars, callVars, words_result, alt_words, alt_question, layoutVars, renderVars>>

\* parse_question_with_location, lines 102-152: the inline exit
ParseInline ==
    /\ pc = "parse"
    /\ words_result # <<>>
    /\ DOMAIN inline_options(valid_items_of(words_result)) # {}
    /\ question' = parse_question_with_location(words_result)
    /\ pc' = "done"
    /\ UNCHANGED <<wrapVars, tokenVars, extractVars, callVars, words_result, alt_words, alt_question, layoutVars, renderVars>>

\* parse_question_with_location, lines 102-165: the exit through parse_question
ParseFallback ==
    /\ pc = "parse"
    /\ words_result # <<>>
    /\ DOMAIN inline_options(valid_items_of(words_result)) = {}
    /\ option_letters_of(valid_items_of(words_result)) = <<>>
    /\ question' = parse_question_with_location(words_result)
    /\ pc' = "done"
    /\ UNCHANGED <<wrapVars, tokenVars, extractVars, callVars, words_result, alt_words, alt_question, layoutVars, renderVars>>

\* parse_question_with_location, lines 102-252: the detached-marker exit
ParseDetached ==
    /\ pc = "parse"
    /\ words_result # <<>>
    /\ DOMAIN inline_options(valid_items_of(words_result)) = {}
    /\ option_letters_of(valid_items_of(words_result)) # <<>>
    /\ question' = parse_question_with_location(words_result)
    /\ pc' = "done"
    /\ UNCHANGED <<wrapVars, tokenVars, extractVars, callVars, words_result, alt_words, alt_question, layoutVars, renderVars>>

NextParse == ParseEmpty \/ ParseInline \/ ParseFallback \/ ParseDetached

SpecParse == InitParse /\ [][NextParse]_vars /\ WF_vars(NextParse)

(***************************************************************************)
(* One question in inline form and in detached-marker form                 *)
(***************************************************************************)
\* Bound of the number of stem fragments.
MaxStemFragments == 2

\* Stem fragments: with a placeholder, plain, and ending in a full stop.
StemTexts == { <<"s", "s", FW_LP, FW_RP>>, <<"p", "p", "p">>, <<"t", "t", FW_STOP>> }
StemLists == UNION {[1..n -> StemTexts] : n \in 0..MaxStemFragments}

\* Option contents: ordinary text of two and of three characters, and digits,
\* which the filter takes for noise.
ContentTexts == { <<"x", "x">>, <<"y", "y", "y">>, <<"1", "2">> }
ContentMaps == UNION {[L -> ContentTexts] : L \in SUBSET LetterSet}

\* The letters of a content map in alphabetical order
KeysOf(contents) == SelectSeq(Letters, LAMBDA l : l \in DOMAIN contents)

StemFragments(stems) == [k \in 1..Len(stems) |-> Fragment(stems[k], 10 * k, 0)]

\* stem fragment(s), then one fragment "<letter>. <content>" per option
InlineForm(stems, contents) ==
    StemFragments(stems) \o
    [n \in 1..Len(KeysOf(contents)) |->
        Fragment(<<KeysOf(contents)[n], ".", " ">> \o contents[KeysOf(contents)[n]],
                 100 * n, 0)]

\* stem fragment(s), then per option the bare letter and, just below it, its
\* content as a fragment of its own
DetachedForm(stems, contents) ==
    StemFragments(stems) \o
    [n \in 1..(2 * Len(KeysOf(contents))) |->
        IF n % 2 = 1
        THEN Fragment(<<KeysOf(contents)[(n + 1) \div 2]>>, 100 * ((n + 1) \div 2), 0)
        ELSE Fragment(contents[KeysOf(contents)[n \div 2]], 100 * (n \div 2) + 10, 0)]

InitEquiv ==
    /\ pc = "parse"
    /\ \E stems \in StemLists, contents \in ContentMaps :
          /\ words_result = InlineForm(stems, contents)
          /\ alt_words = DetachedForm(stems, contents)
    /\ question = <<>>
    /\ alt_question = <<>>
    /\ IdleLayout
    /\ IdleRender
    /\ IdleCall
    /\ IdleToken
    /\ IdleExtract
    /\ IdleWrap

\* parse_question_with_location on both forms
ParseBoth ==
    /\ pc = "parse"
    /\ question' = parse_question_with_location(words_result)
    /\ alt_question' = parse_question_with_location(alt_words)
    /\ pc' = "done"
    /\ UNCHANGED <<wrapVars, tokenVars, extractVars, callVars, words_result, alt_words, layoutVars, renderVars>>

NextEquiv == ParseBoth

SpecEquiv == InitEquiv /\ [][NextEquiv]_vars /\ WF_vars(NextEquiv)

(***************************************************************************)
(* Properties of ImageStitcher                                             *)
(***************************************************************************)
\* Every page built so far: the flushed ones and, while the loop runs, the
\* page under construction.
AllPages == IF pc = "layout" THEN Append(pages, current_page) ELSE pages

Placed == Flatten(AllPages)

SameRowDisjoint(a, b) ==
    /\ a.y = b.y
    /\ (a.x + a.width <= b.x \/ b.x + b.width <= a.x)

OtherRowDisjoint(a, b) ==
    /\ a.y # b.y
    /\ (a.y + a.height <= b.y \/ b.y + b.height <= a.y)

InsideContent(p) ==
    /\ (p.y - PADDING) + p.height <= content_height
    /\ (p.x - PADDING) + p.width <= content_width

\* C1: on every page, any two placed images are either in the same row with
\* disjoint x-ranges or in different rows with disjoint y-ranges.
C1_NonOverlap ==
    \A n \in 1..Len(AllPages) :
        \A a, b \in 1..Len(AllPages[n]) :
            a < b => \/ SameRowDisjoint(AllPages[n][a], AllPages[n][b])
                     \/ OtherRowDisjoint(AllPages[n][a], AllPages[n][b])

\* A finished layout with a page that holds a side-by-side row and another row.
C1_Witness ==
    /\ pc = "done"
    /\ \E n \in 1..Len(pages) :
          /\ Len(pages[n]) >= 3
          /\ \E a, b \in 1..Len(pages[n]) : a < b /\ pages[n][a].y = pages[n][b].y
          /\ \E a, b \in 1..Len(pages[n]) : pages[n][a].y # pages[n][b].y

\* C2: every placed image of every page lies inside the content area, also
\* an image whose height after width-scaling is larger than content_height.
C2_InsideContent ==
    \A n \in 1..Len(AllPages) :
        \A a \in 1..Len(AllPages[n]) : InsideContent(AllPages[n][a])

\* C3: the placed images of all pages, in page order and then placement order,
\* are exactly the input blocks in input order: while the loop runs those
\* before index i, at the end all of them.
C3_OrderPreserved ==
    /\ pc = "layout" =>
          /\ Len(Placed) = i - 1
          /\ i <= Len(scaled_images) + 1
    /\ pc = "done" => Len(Placed) = Len(images)
    /\ \A k \in 1..Len(Placed) :
          /\ Placed[k].image = k
          /\ Placed[k].width = scaled_images[k].width
          /\ Placed[k].height = scaled_images[k].height

\* A finished layout of several pages in which a side-by-side attempt was
\* abandoned: two consecutive narrow images both placed in the left column.
C3_Witness ==
    /\ pc = "done"
    /\ Len(pages) >= 2
    /\ \E k \in 1..(Len(Placed) - 1) :
          /\ scaled_images[k].width <= half_width
          /\ scaled_images[k + 1].width <= half_width
          /\ Placed[k].x = PADDING
          /\ Placed[k + 1].x = PADDING

NoEmptyPage == \A n \in 1..Len(pages) : pages[n] # <<>>

\* C4: for a non-empty input the layout terminates with at least one page, no
\* page is empty, and a page is flushed only when it holds at least one image.
C4_TerminatesNoEmptyPage ==
    /\ [](NoEmptyPage /\ (pc = "done" /\ images # <<>> => Len(pages) >= 1))
    /\ [][pages' # pages => current_page # <<>>]_vars
    /\ <>(pc = "done")

\* A finished layout whose first image is taller than the content area: the
\* page break was considered while the page was still empty.
C4_Witness ==
    /\ pc = "done"
    /\ Len(pages) >= 2
    /\ scaled_images[1].height > content_height
    /\ pages[1][1].image = 1

(***************************************************************************)
(* Properties of the exam formatter                                        *)
(***************************************************************************)
NoBlankPage == \A n \in 1..Len(r_pages) : r_pages[n] # <<>>

\* C5: before a question the page is flushed and the cursor reset if and only
\* if the page already holds a question and cursor + estimated height would
\* pass the bottom of the content area; no returned page is blank.
C5_FlushOnlyNonEmpty ==
    /\ [][(pc = "render" /\ questions # <<>> /\ idx <= Len(questions)) =>
             ((r_pages' # r_pages) <=> (r_current_page # <<>> /\ Overflows))]_vars
    /\ [](NoBlankPage)

StartYs == {0, MARGIN, r_current_y}

\* C6: for the question about to be rendered and every start_y, the estimated
\* height equals the vertical extent _render_question consumes.
C6_HeightAgrees ==
    (pc = "render" /\ idx <= Len(questions)) =>
        LET height == calculate_question_height(questions[idx], idx, CONTENT_WIDTH)
        IN \A start_y \in StartYs :
              height = render_question(questions[idx], idx, start_y, CONTENT_WIDTH)
                          - start_y

\* A question of several stem lines and an odd number of options was rendered.
C6_Witness ==
    /\ idx > 1
    /\ Len(wrap_text(stem_text(questions[idx - 1], idx - 1), CONTENT_WIDTH)) > 1
    /\ Cardinality(DOMAIN questions[idx - 1].options) = 3
    /\ r_current_y > MARGIN + 15 * LINE_HEIGHT_STEM

(***************************************************************************)
(* Properties of the question extractor                                    *)
(***************************************************************************)
Items == valid_items_of(words_result)
Markers == option_letters_of(Items)

TookDetachedExit ==
    /\ pc = "done"
    /\ words_result # <<>>
    /\ DOMAIN inline_options(Items) = {}
    /\ Markers # <<>>

HasFragment(f) == \E k \in 1..Len(words_result) : words_result[k] = f

\* C7: whichever exit parse_question_with_location takes, the keys of the
\* options map of the returned Question are among A, B, C, D.
C7_OptionKeys ==
    pc = "done" => DOMAIN question.options \subseteq {"A", "B", "C", "D"}

\* A stream with the bare letter E next to markers: E is no key.
C7_Witness ==
    /\ pc = "done"
    /\ HasFragment(FragE)
    /\ HasFragment(FragStem)
    /\ DOMAIN question.options = {"A", "B"}

SameReconstruction ==
    /\ question.stem = alt_question.stem
    /\ question.options = alt_question.options

WellMarked ==
    LET stems == SelectSeq(alt_words, LAMBDA f : f.top < 100)
        contents == SelectSeq(alt_words, LAMBDA f : f.top >= 100 /\ f.top % 100 # 0)
    IN /\ stems # <<>>
       /\ has_placeholder(stems[Len(stems)].words)
       /\ \A k \in 1..(Len(stems) - 1) : ~has_placeholder(stems[k].words)
       /\ \A k \in 1..Len(contents) : ~matches_skip_patterns(contents[k].words)

IsNearest(item, m) ==
    /\ \A n \in 1..Len(Markers) :
          Abs(item.top - Markers[m].top) <= Abs(item.top - Markers[n].top)
    /\ \A n \in 1..(m - 1) :
          Abs(item.top - Markers[m].top) < Abs(item.top - Markers[n].top)

Occurrences(seq, x) == Cardinality({k \in 1..Len(seq) : seq[k] = x})

\* The stream of the scenario of section 8.
ScenarioStream == <<FragStem, FragA, FragX, FragB, FragY>>

\* C9: in the detached-marker strategy every non-marker item after the stem
\* boundary is appended to exactly one option, once: that of the nearest
\* marker, the earlier one when two are equally near; no other item is
\* appended to an option; the scenario yields each content under its letter.
C9_NearestMarker ==
    /\ TookDetachedExit =>
          \A k \in 1..Len(Items) :
             /\ is_content(Items, k) =>
                   \E m \in 1..Len(Markers) :
                      /\ IsNearest(Items[k], m)
                      /\ Occurrences(content_list(Items, Markers[m].letter), k) = 1
                      /\ \A l \in DOMAIN question.options :
                            l # Markers[m].letter =>
                               Occurrences(content_list(Items, l), k) = 0
             /\ ~is_content(Items, k) =>
                   \A l \in DOMAIN question.options :
                      Occurrences(content_list(Items, l), k) = 0
    /\ (pc = "done" /\ words_result = ScenarioStream) =>
          /\ question.stem = <<"s", "s">>
          /\ question.options = [l \in {"A", "B"} |->
                                    IF l = "A" THEN <<"x", "x">> ELSE <<"y", "y">>]

\* A content halfway between the markers A and B went to A alone.
C9_Witness ==
    /\ TookDetachedExit
    /\ HasFragment(FragStem) /\ HasFragment(FragA) /\ HasFragment(FragB)
    /\ HasFragment(FragMid)
    /\ Len(words_result) = 4
    /\ question.options["A"] = <<"m", "m", "m">>
    /\ question.options["B"] = <<>>

IsInfix(needle, t) ==
    \E k \in 0..(Len(t) - Len(needle)) : SubSeq(t, k + 1, k + Len(needle)) = needle

\* C10: a fragment that opens no option, is shorter than the continuation
\* threshold (30), does not end in a full stop and immediately follows a
\* fragment opening option A has its text in option A's text, not in the stem.
C10_ContinuationFolded ==
    pc = "done" =>
        \A k \in 1..(Len(Items) - 1) :
            ( /\ inline_match(Items[k].text)
              /\ Items[k].text[1] = "A"
              /\ ~inline_match(Items[k + 1].text)
              /\ ~is_bare_letter(Items[k + 1].text)
              /\ Len(Items[k + 1].text) < 30
              /\ Last(Items[k + 1].text) # FW_STOP )
            => /\ "A" \in DOMAIN question.options
               /\ IsInfix(Items[k + 1].text, question.options["A"])
               /\ ~IsInfix(Items[k + 1].text, question.stem)

\* The fragment passes the filter of parse_question_with_location.
KeptByLocationFilter(t) == \E j \in 1..Len(Items) : Items[j].text = t
\* The line passes the filter of parse_question.
KeptByTextFilter(t) == filter_lines(<<t>>) # <<>>

\* C11: both filters drop every fragment whose trimmed text has at most two
\* characters and is not one of the letters A, B, C, D, and both keep every
\* fragment that is exactly one of those letters.
C11_ShortDroppedLettersKept ==
    pc = "done" =>
        \A k \in 1..Len(words_result) :
            LET t == strip(words_result[k].words)
            IN /\ (Len(t) <= 2 /\ ~is_bare_letter(t)) =>
                      (~KeptByLocationFilter(t) /\ ~KeptByTextFilter(t))
               /\ is_bare_letter(t) =>
                      (KeptByLocationFilter(t) /\ KeptByTextFilter(t))

\* The indexes of the items matching ^[A-D][.．、 ](.+)$
InlineIndexes(items) == {k \in 1..Len(items) : inline_match(items[k].text)}

NoiseFragments == {FragNoise, FragClock}

\* C13: an empty fragment stream, and a stream in which every fragment is
\* noise, yield a Question with an empty stem and an empty options map.
C13_EmptyOrNoise ==
    (pc = "done" /\ \A k \in 1..Len(words_result) : words_result[k] \in NoiseFragments) =>
        /\ question.stem = <<>>
        /\ DOMAIN question.options = {}

\* A stream of two noise fragments has been parsed.
C13_Witness ==
    /\ pc = "done"
    /\ Len(words_result) = 2
    /\ \A k \in 1..2 : words_result[k] \in NoiseFragments
    /\ Items = <<>>
    /\ question = Question(<<>>, EmptyDict, <<>>)

(***************************************************************************)
(* The operations that must produce output: render_questions_to_pdf        *)
(* (exam_formatter.py) and the endpoint stitch_images (main.py)            *)
(***************************************************************************)
\* Bound of the number of uploaded images of a request.
MaxUploads == 2
UploadLists == {l \in ImageLists : Len(l) <= MaxUploads}

\* render_questions_to_pdf, lines 177-188: raise ValueError or return the PDF
pdf_outcome_mutant(rendered) == "returned"
pdf_outcome(rendered) == IF rendered = <<>> THEN "raised" ELSE "returned"

\* stitch_images, lines 48-53: HTTPException(500) or the JSON response
stitch_response(stitched) == IF stitched = <<>> THEN "raised" ELSE "returned"

InitOutput ==
    /\ \/ pc = "stitch" /\ caller = "direct"
       \/ pc = "stitch_images" /\ caller = "stitch_images"
       \/ pc = "render" /\ caller = "direct"
       \/ pc = "render_questions_to_pdf" /\ caller = "render_questions_to_pdf"
    /\ IF pc \in {"stitch", "stitch_images"}
       THEN images \in UploadLists /\ questions = <<>>
       ELSE images = <<>> /\ questions \in QuestionLists
    /\ scaled_images = <<>>
    /\ i = 1
    /\ pages = <<>>
    /\ current_page = <<>>
    /\ current_y = 0
    /\ idx = 1
    /\ r_pages = <<>>
    /\ r_current_page = <<>>
    /\ r_current_y = IF pc \in {"render", "render_questions_to_pdf"} THEN MARGIN ELSE 0
    /\ IdleParse
    /\ IdleToken
    /\ IdleExtract
    /\ IdleWrap

\* stitch_images, lines 34-35: no file was uploaded
StitchImagesReject ==
    /\ pc = "stitch_images"
    /\ images = <<>>
    /\ pc' = "raised"
    /\ UNCHANGED <<wrapVars, tokenVars, extractVars, callVars, layoutVars, renderVars, parseVars>>

\* stitch_images, lines 37-44, and stitch_images_to_a4, lines 168-179: the
\* files are decoded and handed to ImageStitcher.stitch
StitchImagesCall ==
    /\ pc = "stitch_images"
    /\ images # <<>>
    /\ pc' = "stitch"
    /\ UNCHANGED <<wrapVars, tokenVars, extractVars, callVars, layoutVars, renderVars, parseVars>>

\* stitch_images, lines 48-53
StitchImagesRespond ==
    /\ pc = "done"
    /\ caller = "stitch_images"
    /\ pc' = stitch_response(pages)
    /\ UNCHANGED <<wrapVars, tokenVars, extractVars, callVars, layoutVars, renderVars, parseVars>>

\* render_questions_to_pdf, line 175
PdfCall ==
    /\ pc = "render_questions_to_pdf"
    /\ pc' = "render"
    /\ UNCHANGED <<wrapVars, tokenVars, extractVars, callVars, layoutVars, renderVars, parseVars>>

\* render_questions_to_pdf, lines 177-188
PdfFinish ==
    /\ pc = "done"
    /\ caller = "render_questions_to_pdf"
    /\ pc' = pdf_outcome(r_pages)
    /\ UNCHANGED <<wrapVars, tokenVars, extractVars, callVars, layoutVars, renderVars, parseVars>>

NextOutput ==
    \/ StitchImagesReject \/ StitchImagesCall \/ StitchImagesRespond
    \/ PdfCall \/ PdfFinish
    \/ NextLayout
    \/ NextRender

SpecOutput == InitOutput /\ [][NextOutput]_vars /\ WF_vars(NextOutput)

(***************************************************************************)
(* Properties of the output operations                                     *)
(***************************************************************************)
\* C14: with zero inputs stitch and render_questions_to_pages return zero
\* pages without error; render_questions_to_pdf and the endpoint stitch_images
\* end in an error whenever there is no page, so neither returns a success
\* without pages.
C14_ZeroPagesIsError ==
    /\ (pc = "done" /\ images = <<>> /\ questions = <<>>) =>
           (pages = <<>> /\ r_pages = <<>>)
    /\ (pc \in {"returned", "raised"} /\ caller = "render_questions_to_pdf") =>
           (pc = "raised" <=> r_pages = <<>>)
    /\ (pc \in {"returned", "raised"} /\ caller = "stitch_images") =>
           (pc = "raised" <=> pages = <<>>)
    /\ (pc \in {"returned", "raised"} /\ images = <<>> /\ questions = <<>>) =>
           pc = "raised"

\* render_questions_to_pdf([]) has raised.
C14_Witness ==
    /\ pc = "raised"
    /\ caller = "render_questions_to_pdf"
    /\ questions = <<>>
    /\ r_pages = <<>>

(***************************************************************************)
(* question_extractor.py: _get_access_token and its cache, with concurrent *)
(* callers.  A step is one read or write of the global _access_token or    *)
(* one request; the interpreter may switch threads between two steps.      *)
(***************************************************************************)
\* Bound of the number of concurrent callers.
MaxCallers == 3
Callers == 1..MaxCallers

\* The tokens the provider may issue.
Tokens == {"t1", "t2"}

\* requests.post(...).json(), lines 44-45: a token, a result without
\* "access_token", or an exception of requests
TokenResponses == Tokens \cup {"no_token", "exception"}

Running(c) == tpc[c] \in {"check", "return_cached", "keys", "post", "store", "return"}

InitToken ==
    /\ pc = "token"
    /\ access_token = "None"
    /\ has_keys \in BOOLEAN
    /\ tpc = [c \in Callers |-> "idle"]
    /\ t_result = [c \in Callers |-> "none"]
    /\ t_ret = [c \in Callers |-> "none"]
    /\ late = {}
    /\ overlap = FALSE
    /\ IdleLayout
    /\ IdleRender
    /\ IdleParse
    /\ IdleCall
    /\ IdleExtract
    /\ IdleWrap

\* line 28: caller c enters _get_access_token
TokenStart(c) ==
    /\ tpc[c] = "idle"
    /\ tpc' = [tpc EXCEPT ![c] = "check"]
    /\ late' = IF \E d \in DOMAIN tpc : tpc[d] = "returned" THEN late \cup {c} ELSE late
    /\ overlap' = (overlap \/ \E d \in DOMAIN tpc : d # c /\ Running(d))
    /\ UNCHANGED <<wrapVars, access_token, has_keys, t_result, t_ret,
                   pc, layoutVars, renderVars, parseVars, callVars, extractVars>>

\* line 31: if _access_token
cache_hit_mutant(token) == FALSE
cache_hit(token) == token # "None"

TokenCheck(c) ==
    /\ tpc[c] = "check"
    /\ tpc' = [tpc EXCEPT ![c] = IF cache_hit(access_token) THEN "return_cached" ELSE "keys"]
    /\ UNCHANGED <<wrapVars, access_token, has_keys, t_result, t_ret, late, overlap,
                   pc, layoutVars, renderVars, parseVars, callVars, extractVars>>

\* line 32: return _access_token
TokenReturnCached(c) ==
    /\ tpc[c] = "return_cached"
    /\ t_ret' = [t_ret EXCEPT ![c] = access_token]
    /\ tpc' = [tpc EXCEPT ![c] = "returned"]
    /\ UNCHANGED <<wrapVars, access_token, has_keys, t_result, late, overlap,
                   pc, layoutVars, renderVars, parseVars, callVars, extractVars>>

\* lines 34-35
TokenKeys(c) ==
    /\ tpc[c] = "keys"
    /\ tpc' = [tpc EXCEPT ![c] = IF has_keys THEN "post" ELSE "raised"]
    /\ UNCHANGED <<wrapVars, access_token, has_keys, t_result, t_ret, late, overlap,
                   pc, layoutVars, renderVars, parseVars, callVars, extractVars>>

\* lines 37-45: the fetch
TokenPost(c) ==
    /\ tpc[c] = "post"
    /\ \E r \in TokenResponses :
          /\ t_result' = [t_result EXCEPT ![c] = r]
          /\ tpc' = [tpc EXCEPT ![c] = IF r = "exception" THEN "raised" ELSE "store"]
    /\ UNCHANGED <<wrapVars, access_token, has_keys, t_ret, late, overlap,
                   pc, layoutVars, renderVars, parseVars, callVars, extractVars>>

\* lines 47-50
TokenStore(c) ==
    /\ tpc[c] = "store"
    /\ IF t_result[c] = "no_token"
       THEN /\ tpc' = [tpc EXCEPT ![c] = "raised"]
            /\ UNCHANGED access_token
       ELSE /\ access_token' = t_result[c]
            /\ tpc' = [tpc EXCEPT ![c] = "return"]
    /\ UNCHANGED <<wrapVars, has_keys, t_result, t_ret, late, overlap,
                   pc, layoutVars, renderVars, parseVars, callVars, extractVars>>

\* line 51: return _access_token
TokenReturn(c) ==
    /\ tpc[c] = "return"
    /\ t_ret' = [t_ret EXCEPT ![c] = access_token]
    /\ tpc' = [tpc EXCEPT ![c] = "returned"]
    /\ UNCHANGED <<wrapVars, access_token, has_keys, t_result, late, overlap,
                   pc, layoutVars, renderVars, parseVars, callVars, extractVars>>

\* The steps of _get_access_token after its entry
TokenStep(c) ==
    \/ TokenCheck(c) \/ TokenReturnCached(c) \/ TokenKeys(c)
    \/ TokenPost(c) \/ TokenStore(c) \/ TokenReturn(c)

NextToken == \E c \in Callers : TokenStart(c) \/ TokenStep(c)

SpecToken == InitToken /\ [][NextToken]_vars /\ WF_vars(NextToken)

(***************************************************************************)
(* Properties of the token cache                                           *)
(***************************************************************************)
\* The callers whose read of line 31 found the cache unset
Missed ==
    {c \in Callers : \/ tpc[c] \in {"keys", "post", "store", "return", "raised"}
                     \/ t_result[c] # "none"}
\* The callers that performed a fetch (line 44)
Fetched == {c \in Callers : t_result[c] # "none"}
\* The tokens the fetches obtained
Issued == {t_result[c] : c \in Fetched} \cap Tokens
Returned == {c \in Callers : tpc[c] = "returned"}

CacheStaysSet == [][access_token # "None" => access_token' # "None"]_vars
LateCallsDoNotFetch == \A c \in late : c \notin Fetched
OnlyDuplicateFetches == Fetched \subseteq Missed /\ Cardinality(Fetched) <= Cardinality(Missed)
\* The callers whose fetch obtained a token
Obtained == {c \in Callers : t_result[c] \in Tokens}
SequentialFetchesOnce == ~overlap => Cardinality(Obtained) <= 1

MaxOcrImages == 3

\* The outcomes of the OCR request of extract_text_from_image, lines 77-84: a
\* result with words, a result with no words, a result with "error_code",
\* or an exception of requests
OcrOutcomes == {"words", "empty", "error_code", "exception"}

\* lines 77-81 and 393-395: where the loop goes after the request
ocr_next_mutant(outcome) == "loop"
ocr_next(outcome) == IF outcome \in {"error_code", "exception"} THEN "raised" ELSE "loop"

InitExtract ==
    /\ pc = "extract"
    /\ e_pc = "loop"
    /\ e_i = 0
    /\ e_questions = <<>>
    /\ \E n \in 0..MaxOcrImages : ocr_requests = [j \in 1..n |-> <<>>]
    /\ access_token \in {"None"} \cup Tokens
    /\ has_keys \in BOOLEAN
    /\ tpc = [c \in Callers |-> "idle"]
    /\ t_result = [c \in Callers |-> "none"]
    /\ t_ret = [c \in Callers |-> "none"]
    /\ late = {}
    /\ overlap = FALSE
    /\ IdleLayout
    /\ IdleRender
    /\ IdleParse
    /\ IdleCall
    /\ IdleWrap

\* line 391 and extract_text_from_image, lines 57-71: the next image is
\* prepared and _get_access_token is called
ExtractNext ==
    /\ e_pc = "loop"
    /\ e_i < Len(ocr_requests)
    /\ e_i' = e_i + 1
    /\ e_pc' = "token"
    /\ tpc' = [tpc EXCEPT ![1] = "check"]
    /\ t_result' = [t_result EXCEPT ![1] = "none"]
    /\ t_ret' = [t_ret EXCEPT ![1] = "none"]
    /\ UNCHANGED <<wrapVars, access_token, has_keys, late, overlap, e_questions, ocr_requests,
                   pc, layoutVars, renderVars, parseVars, callVars>>

\* the exception of _get_access_token leaves extract_text_from_image (line
\* 71) and extract_questions_from_images (line 392)
ExtractTokenRaised ==
    /\ e_pc = "token"
    /\ tpc[1] = "raised"
    /\ e_pc' = "raised"
    /\ UNCHANGED <<wrapVars, tokenVars, e_i, e_questions, ocr_requests,
                   pc, layoutVars, renderVars, parseVars, callVars>>

\* extract_text_from_image, lines 72-87, and lines 393-395: the OCR request,
\* its result, and the question of the image
ExtractOcr ==
    /\ e_pc = "token"
    /\ tpc[1] = "returned"
    /\ \E outcome \in OcrOutcomes :
          /\ ocr_requests' = [ocr_requests EXCEPT ![e_i] = Append(@, outcome)]
          /\ e_questions' = IF outcome = "words" THEN Append(e_questions, e_i)
                            ELSE e_questions
          /\ e_pc' = ocr_next(outcome)
    /\ UNCHANGED <<wrapVars, tokenVars, e_i, pc, layoutVars, renderVars, parseVars, callVars>>

\* line 396
ExtractReturn ==
    /\ e_pc = "loop"
    /\ e_i = Len(ocr_requests)
    /\ e_pc' = "done"
    /\ UNCHANGED <<wrapVars, tokenVars, e_i, e_questions, ocr_requests,
                   pc, layoutVars, renderVars, parseVars, callVars>>

NextExtract ==
    \/ ExtractNext \/ ExtractTokenRaised \/ ExtractOcr \/ ExtractReturn
    \/ TokenStep(1)

SpecExtract == InitExtract /\ [][NextExtract]_vars /\ WF_vars(NextExtract)

(***************************************************************************)
(* Properties of extract_questions_from_images                             *)
(***************************************************************************)
\* The images whose OCR request failed
OcrFailed == {j \in 1..Len(ocr_requests) :
                 \E k \in 1..Len(ocr_requests[j]) :
                     ocr_requests[j][k] \in {"error_code", "exception"}}

\* C16: when the token fetch or the recognition fails for image i the call
\* ends raising at image i and returns no list, no image after i is
\* submitted, no image is submitted twice, and a failed token fetch leaves
\* the cache unset.
C16_FailurePropagates ==
    /\ \A j \in 1..Len(ocr_requests) :
          /\ Len(ocr_requests[j]) <= 1
          /\ j > e_i => ocr_requests[j] = <<>>
    /\ OcrFailed # {} => (e_pc = "raised" /\ OcrFailed = {e_i})
    /\ (e_pc = "token" /\ tpc[1] = "raised") =>
          (ocr_requests[e_i] = <<>> /\ access_token = "None")
    /\ e_pc = "raised" =>
          /\ ~ENABLED NextExtract
          /\ OcrFailed = {} => (tpc[1] = "raised" /\ access_token = "None")
    /\ e_pc = "done" =>
          /\ OcrFailed = {}
          /\ \A j \in 1..Len(ocr_requests) : Len(ocr_requests[j]) = 1

\* The recognition of the second of three images failed: the first image
\* gave a question, the third was never submitted.
C16_Witness ==
    /\ e_pc = "raised"
    /\ Len(ocr_requests) = 3
    /\ e_i = 2
    /\ e_questions = <<1>>
    /\ ocr_requests[2] = <<"error_code">>
    /\ ocr_requests[3] = <<>>

(***************************************************************************)
(* Screenshot stitching in grid mode.  main.py calls stitch_images_to_pdf  *)
(* for it (lines 7 and 71), whose source is not part of src/; the machine  *)
(* follows section 4.5 of the specification (grid mode) and the constants  *)
(* of its section 6.  It uses the variables of the layout engine: images   *)
(* are the pre-scaled blocks, current_y is the cursor.                     *)
(***************************************************************************)
\* grid columns 4 (screenshot mode)
GRID_COLUMNS == 4
\* landscape page 3508 x 2480, margin 40, inter-block gap 20
grid_content_width == PAGE_WIDTH - 2 * PADDING
grid_content_height == PAGE_HEIGHT - 2 * PADDING
cell_width == (grid_content_width - (GRID_COLUMNS - 1) * GAP) \div GRID_COLUMNS

\* Bounds of the blocks: a block of a cell's width and one wider than half the
\* content width, each low enough for two rows on a page or too high for it.
MaxBlocks == 5
BlockWidths == {cell_width, 1800}
BlockHeights == {1000, 1500}
Block == [width : BlockWidths, height : BlockHeights]
BlockLists == UNION {[1..n -> Block] : n \in 0..MaxBlocks}

\* consume blocks in runs of C: the index of the last block of the run that
\* starts at block k
run_end_mutant(blocks, k) == IF k + GRID_COLUMNS <= Len(blocks) THEN k + GRID_COLUMNS ELSE Len(blocks)
run_end(blocks, k) ==
    IF k + GRID_COLUMNS - 1 <= Len(blocks) THEN k + GRID_COLUMNS - 1 ELSE Len(blocks)

\* a run's row height = max block height in the run
RECURSIVE run_height(_, _, _)
run_height(blocks, k, last) ==
    IF k > last THEN 0 ELSE Max(blocks[k].height, run_height(blocks, k + 1, last))

\* if cursor + row_height exceeds content height AND the current page already
\* holds content, flush the page and reset cursor to 0
grid_break(cursor, row_height, page) ==
    cursor + row_height > grid_content_height /\ page # <<>>

\* place all blocks of the run left-to-right at x = margin + col * (cell_width
\* + gap), same y for the row
place_run(blocks, k, last, cursor) ==
    [n \in 1..(last - k + 1) |->
        PlacedImage(k + n - 1, blocks[k + n - 1],
                    PADDING + (n - 1) * (cell_width + GAP), PADDING + cursor)]

InitGrid ==
    /\ pc = "grid"
    /\ images \in BlockLists
    /\ scaled_images = <<>>
    /\ i = 1
    /\ pages = <<>>
    /\ current_page = <<>>
    /\ current_y = 0
    /\ IdleRender
    /\ IdleParse
    /\ IdleCall
    /\ IdleToken
    /\ IdleExtract
    /\ IdleWrap

\* Zero input blocks: the layout engine returns zero pages.
GridEmpty ==
    /\ pc = "grid"
    /\ images = <<>>
    /\ pc' = "done"
    /\ UNCHANGED <<wrapVars, layoutVars, renderVars, parseVars, callVars, tokenVars, extractVars>>

\* One run of at most C blocks
GridRow ==
    /\ pc = "grid"
    /\ images # <<>>
    /\ i <= Len(images)
    /\ LET last == run_end(images, i)
           row_height == run_height(images, i, last)
           brk == grid_break(current_y, row_height, current_page)
           cursor == IF brk THEN 0 ELSE current_y
       IN /\ pages' = IF brk THEN Append(pages, current_page) ELSE pages
          /\ current_page' = (IF brk THEN <<>> ELSE current_page) \o
                                 place_run(images, i, last, cursor)
          /\ current_y' = cursor + row_height + GAP
          /\ i' = last + 1
    /\ UNCHANGED <<wrapVars, pc, images, scaled_images, renderVars, parseVars, callVars,
                   tokenVars, extractVars>>

\* The page under construction is the last page.
GridFinish ==
    /\ pc = "grid"
    /\ images # <<>>
    /\ i > Len(images)
    /\ pages' = IF current_page # <<>> THEN Append(pages, current_page) ELSE pages
    /\ pc' = "done"
    /\ UNCHANGED <<wrapVars, images, scaled_images, i, current_page, current_y, renderVars,
                   parseVars, callVars, tokenVars, extractVars>>

NextGrid == GridEmpty \/ GridRow \/ GridFinish

SpecGrid == InitGrid /\ [][NextGrid]_vars /\ WF_vars(NextGrid)

(***************************************************************************)
(* Properties of the grid mode                                             *)
(***************************************************************************)
\* The numbers of the blocks on page p, in placement order
BlocksOn(p) == [k \in 1..Len(pages[p]) |-> pages[p][k].image]
AllWide == \A k \in 1..Len(images) : images[k].width > grid_content_width \div 2
\* The blocks of the run that starts at block k stand at the same y, in the
\* columns from the left
RunInOneRow(page, first, k, last) ==
    \A n \in 0..(last - k) :
        /\ page[first + n].image = k + n
        /\ page[first + n].y = page[first].y
        /\ page[first + n].x = PADDING + n * (cell_width + GAP)

FragTerm == Fragment(<<"t", "t", FW_STOP>>, 15, 0)
FragLate == Fragment(<<"z", "z", FW_LP, FW_RP>>, 130, 0)

BoundaryPool == << FragStem, FragPlain, FragTerm, FragPlain2, FragA, FragInA, FragX,
                   FragB, FragLate >>

\* The fragments of S in the order of BoundaryPool
RECURSIVE InBoundaryOrder(_)
InBoundaryOrder(S) ==
    IF S = {} THEN <<>>
    ELSE LET k == CHOOSE n \in S : \A m \in S : n <= m
         IN <<BoundaryPool[k]>> \o InBoundaryOrder(S \ {k})

BoundaryStreams ==
    {InBoundaryOrder(S) : S \in {T \in SUBSET (1..Len(BoundaryPool)) :
                                    Cardinality(T) <= MaxFragments}}

InitBoundary ==
    /\ pc = "parse"
    /\ words_result \in BoundaryStreams
    /\ question = <<>>
    /\ alt_words = <<>>
    /\ alt_question = <<>>
    /\ IdleLayout
    /\ IdleRender
    /\ IdleCall
    /\ IdleToken
    /\ IdleExtract
    /\ IdleWrap

SpecBoundary == InitBoundary /\ [][NextParse]_vars /\ WF_vars(NextParse)

\* C18: in the detached-marker strategy the stem ends just after the first
\* fragment before the first marker that contains an empty-parenthesis
\* placeholder or ends in a full stop, and otherwise two fragments before the
\* first marker; so the stem is made of fragments before the first marker
\* only.
C18_BoundaryBeforeFirstMarker ==
    TookDetachedExit =>
        LET items == Items
            first_marker == CHOOSE k \in 1..Len(items) :
                               /\ is_bare_letter(items[k].text)
                               /\ \A j \in 1..(k - 1) : ~is_bare_letter(items[j].text)
            closing == {k \in 1..(first_marker - 1) :
                           has_placeholder(items[k].text) \/ Last(items[k].text) = FW_STOP}
            boundary == IF closing # {} THEN CHOOSE k \in closing : \A j \in closing : k <= j
                        ELSE Max(first_marker - 2, 0)
        IN /\ boundary < first_marker
           /\ question.stem = clean_stem(join([k \in 1..boundary |-> items[k].text]))

(***************************************************************************)
(* The row decision of _layout_images                                      *)
(***************************************************************************)
\* C19: blocks i and i+1 are placed side by side in one row (same y, x =
\* PADDING and x = PADDING + half_width + GAP) if and only if both widths are
\* at most half_width and, after the page-break check for block i, the cursor
\* plus the larger of the two heights is at most content_height; otherwise
\* block i is placed alone at x = PADDING and block i+1 is considered in the
\* next step.  After each row the cursor advances by the row height plus GAP.
C19_SideBySideIffFits ==
    [][ (pc = "layout" /\ i <= Len(scaled_images)) =>
          LET img    == scaled_images[i]
              half   == (content_width - GAP) \div 2
              cursor == IF current_y + img.height > content_height /\ current_page # <<>>
                        THEN 0 ELSE current_y
              fits   == /\ i + 1 <= Len(scaled_images)
                        /\ img.width <= half
                        /\ scaled_images[i + 1].width <= half
                        /\ cursor + Max(img.height, scaled_images[i + 1].height)
                              <= content_height
              page   == current_page'
              left   == Placed'[i]
          IN /\ left.image = i
             /\ left.x = PADDING
             /\ IF fits
                THEN /\ i' = i + 2
                     /\ Len(Placed') = i + 1
                     /\ Len(page) >= 2
                     /\ page[Len(page) - 1] = left
                     /\ page[Len(page)].image = i + 1
                     /\ page[Len(page)].x = PADDING + half + GAP
                     /\ page[Len(page)].y = left.y
                     /\ left.y = PADDING + cursor
                     /\ current_y' = cursor + Max(img.height, scaled_images[i + 1].height) + GAP
                ELSE /\ i' = i + 1
                     /\ Len(Placed') = i
                     /\ page[Len(page)] = left
                     /\ \A k \in 1..(Len(page) - 1) : page[k].y # left.y
                     /\ current_y' = (left.y - PADDING) + left.height + GAP
      ]_vars

\* A finished layout with a side-by-side row, with two consecutive narrow
\* blocks that did not fit one row and were each placed alone, and with a
\* wide block.
C19_Witness ==
    /\ pc = "done"
    /\ \E k \in 1..(Len(Placed) - 1) :
          /\ Placed[k].y = Placed[k + 1].y
          /\ Placed[k].x = PADDING
          /\ Placed[k + 1].x = PADDING + half_width + GAP
    /\ \E k \in 1..(Len(Placed) - 1) :
          /\ Placed[k].width <= half_width
          /\ Placed[k + 1].width <= half_width
          /\ Placed[k + 1].x = PADDING
          /\ Placed[k].x = PADDING
    /\ \E k \in 1..Len(Placed) : Placed[k].width > half_width

(***************************************************************************)
(* _wrap_text called on its own                                            *)
(***************************************************************************)
MaxTextLen == 4
WrapChars == {"W", "a"}
WrapTexts == UNION {[1..n -> WrapChars] : n \in 0..MaxTextLen}
WrapWidths == {0, CharWidth("a"), 2 * CharWidth("a"), CharWidth("W"),
               CharWidth("W") + CharWidth("a"), 2 * CharWidth("W")}

InitWrap ==
    /\ pc = "wrap"
    /\ w_text \in WrapTexts
    /\ w_max_width \in WrapWidths
    /\ w_lines = <<>>
    /\ IdleLayout
    /\ IdleRender
    /\ IdleParse
    /\ IdleCall
    /\ IdleToken
    /\ IdleExtract

\* _wrap_text, lines 41-61
WrapText ==
    /\ pc = "wrap"
    /\ w_lines' = wrap_text(w_text, w_max_width)
    /\ pc' = "done"
    /\ UNCHANGED <<w_text, w_max_width, layoutVars, renderVars, parseVars, callVars,
                   tokenVars, extractVars>>

NextWrap == WrapText

SpecWrap == InitWrap /\ [][NextWrap]_vars /\ WF_vars(NextWrap)

\* C20: the lines _wrap_text returns concatenate, in order, to the input
\* text; none is empty; every line longer than one character measures at
\* most max_width; and a line ends exactly where appending the next character
\* would exceed max_width, that character starting the next line.
C20_WrapPartitionsText ==
    pc = "done" =>
        /\ Flatten(w_lines) = w_text
        /\ \A j \in 1..Len(w_lines) :
              /\ w_lines[j] # <<>>
              /\ Len(w_lines[j]) > 1 => TextWidth(w_lines[j]) <= w_max_width
              /\ \A m \in 2..Len(w_lines[j]) :
                    TextWidth(SubSeq(w_lines[j], 1, m)) <= w_max_width
              /\ j < Len(w_lines) =>
                    TextWidth(Append(w_lines[j], w_lines[j + 1][1])) > w_max_width

\* A wrapped text of several lines, one of them longer than one character
\* and one of them a single character wider than max_width.
C20_Witness ==
    /\ pc = "done"
    /\ Len(w_lines) >= 3
    /\ \E j \in 1..Len(w_lines) : Len(w_lines[j]) > 1
    /\ \E j \in 1..Len(w_lines) : TextWidth(w_lines[j]) > w_max_width

====
